---- MODULE Spec2Model ----
(***************************************************************************)
(* ChoreoAI gateway: adapter factory, chat / embeddings routers and the    *)
(* streaming generator, modelled as a state machine.                       *)
(*                                                                         *)
(* Strings the code inspects (model identifiers, provider names) are       *)
(* sequences of one-character strings, so that str.lower() and             *)
(* str.startswith() are computed rather than assumed.                      *)
(***************************************************************************)
EXTENDS Integers, Sequences, FiniteSets, TLC

VARIABLES
    settings,    \* config.settings: credential name -> value
    instances,   \* adapter objects constructed so far, in construction order
    resolved,    \* adapters returned by the successful resolutions so far
    nreq,        \* operations started so far
    pc,          \* "idle" | "await_chat" | "await_embedding" | "streaming" | "done"
    req,         \* the operation being served
    ret,         \* outcome of the operation's AdapterFactory call
    adapter,     \* the handler's local `adapter`
    state,       \* http_request.state
    resp,        \* the HTTP response of the operation
    calls,       \* adapter operations invoked while serving the operation
    upstream,    \* provider client calls issued while serving the operation
    raisedErr,   \* the exception the adapter operation raised, if any
    gen,         \* stream_generator: position, pending chunk / error
    produced,    \* chunks the adapter's stream has yielded
    wire,        \* events stream_generator has handed to the transport
    all_models,  \* list_models: the handler's local `all_models`
    warnings,    \* list_models: providers whose fetch was skipped, with the exception
    fnarg,       \* argument of the function being applied (function-level checks)
    fnret        \* its return value

vars == <<settings, instances, resolved, nreq, pc, req, ret, adapter, state,
          resp, calls, upstream, raisedErr, gen, produced, wire,
          all_models, warnings, fnarg, fnret>>

\* The variables only list_models and the function-level checks use.
aux == <<all_models, warnings, fnarg, fnret>>

(***************************************************************************)
(* Bounds of the model.                                                    *)
(***************************************************************************)
\* Operations served in one behaviour.
MaxRequests == 2
\* Chunks a provider stream delivers before it ends or fails.
MaxChunks == 2
\* Settings explored: those differing in at most this many credentials from
\* "no credential present" or from "every credential present".
MaxDeviation == 1

(***************************************************************************)
(* Python strings.                                                         *)
(***************************************************************************)
UpperAZ == <<"A","B","C","D","E","F","G","H","I","J","K","L","M",
             "N","O","P","Q","R","S","T","U","V","W","X","Y","Z">>
LowerAZ == <<"a","b","c","d","e","f","g","h","i","j","k","l","m",
             "n","o","p","q","r","s","t","u","v","w","x","y","z">>

LowerChar(c) ==
    IF \E i \in 1..Len(UpperAZ) : UpperAZ[i] = c
    THEN LowerAZ[CHOOSE i \in 1..Len(UpperAZ) : UpperAZ[i] = c]
    ELSE c

\* str.lower()
lower(s) == [i \in 1..Len(s) |-> LowerChar(s[i])]

\* str.startswith(prefix)
startswith(s, p) == Len(s) >= Len(p) /\ SubSeq(s, 1, Len(p)) = p

S_openai == <<"o","p","e","n","a","i">>
S_claude == <<"c","l","a","u","d","e">>
S_azure == <<"a","z","u","r","e">>
S_bedrock == <<"b","e","d","r","o","c","k">>
S_gemini == <<"g","e","m","i","n","i">>
S_grok == <<"g","r","o","k">>

P_gpt == <<"g","p","t","-">>
P_o1 == <<"o","1","-">>
P_textemb == <<"t","e","x","t","-","e","m","b","e","d","d","i","n","g","-">>
P_claude == <<"c","l","a","u","d","e","-">>
P_gemini == <<"g","e","m","i","n","i","-">>
P_grok == <<"g","r","o","k","-">>

\* The prefixes get_adapter_for_model tests, as written in the source.
RegisteredPrefixes == {P_gpt, P_o1, P_textemb, P_claude, P_gemini, P_grok}

(***************************************************************************)
(* Inputs: model identifiers of requests, provider names of direct calls.  *)
(***************************************************************************)
ModelIds ==
    { <<"g","p","t","-","4">>,
      <<"G","P","T","-","4">>,
      <<"o","1","-","m">>,
      P_textemb \o <<"3">>,
      <<"c","l","a","u","d","e","-","3">>,
      <<"C","l","a","u","d","e","-","3">>,
      <<"g","e","m","i","n","i","-","p">>,
      <<"g","r","o","k","-","1">>,
      <<"g","p","t","4">>,
      <<"l","l","a","m","a","-","2">>,
      <<>> }

ProviderNames ==
    { S_openai, <<"O","p","e","n","A","I">>, S_claude, <<"A","Z","U","R","E">>,
      S_azure, S_bedrock, S_gemini, S_grok,
      <<"m","i","s","t","r","a","l">>, S_openai \o <<" ">>, <<"o","p","e","n">> }

(***************************************************************************)
(* Settings (config.py): every provider credential is Optional[str] with   *)
(* default None.  A credential is None, the empty string or a key.         *)
(***************************************************************************)
NoneVal == "<None>"
EmptyStr == ""
KeyVal == "sk"

CredNames == {"OPENAI_API_KEY", "ANTHROPIC_API_KEY", "AZURE_OPENAI_ENDPOINT",
              "AZURE_OPENAI_API_KEY", "GEMINI_API_KEY", "GROK_API_KEY",
              "AWS_ACCESS_KEY_ID", "AWS_SECRET_ACCESS_KEY"}

AWS_REGION == "us-east-1"

\* Mutant: only an unset credential counts as missing.
Falsy_none_only(v) == v = NoneVal

\* Python truthiness of an Optional[str]: `not v` holds for None and "".
Falsy(v) == v = NoneVal \/ v = EmptyStr

(***************************************************************************)
(* Exceptions and adapter instances.                                       *)
(***************************************************************************)
EmptySeq == <<>>

\* str(e) is text with arg spliced in; cause is the wrapped upstream error.
Error(type, text, arg, cause) ==
    [type |-> type, text |-> text, arg |-> arg, cause |-> cause]

NoError == Error("", "", EmptySeq, "")

ValueError(text, arg) == Error("ValueError", text, arg, "")

NotImplementedError(text) == Error("NotImplementedError", text, EmptySeq, "")

\* raise Exception(f"<prefix>: {str(e)}")
WrappedException(text, cause) == Error("Exception", text, EmptySeq, cause)

Unset == "<unset>"

NoAdapter ==
    [id |-> 0, cls |-> "", api_key |-> Unset, endpoint |-> Unset,
     aws_access_key_id |-> Unset, aws_secret_access_key |-> Unset,
     region |-> Unset, client |-> ""]

\* BaseAdapter.__init__ and the subclasses' __init__: a new object, whose
\* identity is its position in the list of objects constructed so far.
OpenAIAdapter(api_key, insts) ==
    [NoAdapter EXCEPT !.id = Len(insts) + 1, !.cls = "OpenAIAdapter",
                      !.api_key = api_key, !.client = "AsyncOpenAI"]

ClaudeAdapter(api_key, insts) ==
    [NoAdapter EXCEPT !.id = Len(insts) + 1, !.cls = "ClaudeAdapter",
                      !.api_key = api_key, !.client = "AsyncAnthropic"]

AzureAdapter(api_key, endpoint, insts) ==
    [NoAdapter EXCEPT !.id = Len(insts) + 1, !.cls = "AzureAdapter",
                      !.api_key = api_key, !.endpoint = endpoint]

BedrockAdapter(akid, secret, region, insts) ==
    [NoAdapter EXCEPT !.id = Len(insts) + 1, !.cls = "BedrockAdapter",
                      !.api_key = EmptyStr, !.aws_access_key_id = akid,
                      !.aws_secret_access_key = secret, !.region = region]

GeminiAdapter(api_key, insts) ==
    [NoAdapter EXCEPT !.id = Len(insts) + 1, !.cls = "GeminiAdapter",
                      !.api_key = api_key]

GrokAdapter(api_key, insts) ==
    [NoAdapter EXCEPT !.id = Len(insts) + 1, !.cls = "GrokAdapter",
                      !.api_key = api_key]

(***************************************************************************)
(* AdapterFactory.  A call either returns an adapter or raises; insts is   *)
(* the list of adapter objects constructed so far, and the result carries  *)
(* the list after the call.                                                *)
(***************************************************************************)
\* Mutant: an adapter of the class, once constructed, is kept and returned again.
ReturnedCached(a, insts) ==
    IF \E i \in DOMAIN insts : insts[i].cls = a.cls
    THEN [ok |-> TRUE, error |-> NoError, instances |-> insts,
          adapter |-> insts[CHOOSE i \in DOMAIN insts : insts[i].cls = a.cls]]
    ELSE [ok |-> TRUE, adapter |-> a, error |-> NoError, instances |-> Append(insts, a)]

Returned(a, insts) ==
    [ok |-> TRUE, adapter |-> a, error |-> NoError, instances |-> Append(insts, a)]

Raised(e, insts) ==
    [ok |-> FALSE, adapter |-> NoAdapter, error |-> e, instances |-> insts]

\* The branches of get_adapter, on the name they compare.
get_adapter_branches(provider_lower, provider, cfg, insts) ==
    IF provider_lower = S_openai THEN
        IF Falsy(cfg["OPENAI_API_KEY"])
        THEN Raised(ValueError("OPENAI_API_KEY not configured", EmptySeq), insts)
        ELSE Returned(OpenAIAdapter(cfg["OPENAI_API_KEY"], insts), insts)
    ELSE IF provider_lower = S_claude THEN
        IF Falsy(cfg["ANTHROPIC_API_KEY"])
        THEN Raised(ValueError("ANTHROPIC_API_KEY not configured", EmptySeq), insts)
        ELSE Returned(ClaudeAdapter(cfg["ANTHROPIC_API_KEY"], insts), insts)
    ELSE IF provider_lower = S_azure THEN
        IF Falsy(cfg["AZURE_OPENAI_API_KEY"]) \/ Falsy(cfg["AZURE_OPENAI_ENDPOINT"])
        THEN Raised(ValueError("Azure OpenAI credentials not configured", EmptySeq), insts)
        ELSE Returned(AzureAdapter(cfg["AZURE_OPENAI_API_KEY"],
                                   cfg["AZURE_OPENAI_ENDPOINT"], insts), insts)
    ELSE IF provider_lower = S_bedrock THEN
        IF Falsy(cfg["AWS_ACCESS_KEY_ID"]) \/ Falsy(cfg["AWS_SECRET_ACCESS_KEY"])
        THEN Raised(ValueError("AWS credentials not configured", EmptySeq), insts)
        ELSE Returned(BedrockAdapter(cfg["AWS_ACCESS_KEY_ID"],
                                     cfg["AWS_SECRET_ACCESS_KEY"], AWS_REGION, insts), insts)
    ELSE IF provider_lower = S_gemini THEN
        IF Falsy(cfg["GEMINI_API_KEY"])
        THEN Raised(ValueError("GEMINI_API_KEY not configured", EmptySeq), insts)
        ELSE Returned(GeminiAdapter(cfg["GEMINI_API_KEY"], insts), insts)
    ELSE IF provider_lower = S_grok THEN
        IF Falsy(cfg["GROK_API_KEY"])
        THEN Raised(ValueError("GROK_API_KEY not configured", EmptySeq), insts)
        ELSE Returned(GrokAdapter(cfg["GROK_API_KEY"], insts), insts)
    ELSE Raised(ValueError("Unsupported provider: ", provider), insts)

\* Mutant: the name is compared as given.
get_adapter_cased(provider, cfg, insts) ==
    get_adapter_branches(provider, provider, cfg, insts)

get_adapter(provider, cfg, insts) ==
    get_adapter_branches(lower(provider), provider, cfg, insts)

\* Mutant: the prefixes are tested against the identifier as given.
get_adapter_for_model_cased(model, cfg, insts) ==
    IF startswith(model, P_gpt) \/ startswith(model, P_o1) \/ startswith(model, P_textemb)
    THEN get_adapter(S_openai, cfg, insts)
    ELSE IF startswith(model, P_claude) THEN get_adapter(S_claude, cfg, insts)
    ELSE IF startswith(model, P_gemini) THEN get_adapter(S_gemini, cfg, insts)
    ELSE IF startswith(model, P_grok) THEN get_adapter(S_grok, cfg, insts)
    ELSE Raised(ValueError("Unknown model: ", model), insts)

\* Mutant: an identifier with no registered prefix falls back to OpenAI.
get_adapter_for_model_default(model, cfg, insts) ==
    LET model_lower == lower(model) IN
    IF startswith(model_lower, P_claude) THEN get_adapter(S_claude, cfg, insts)
    ELSE IF startswith(model_lower, P_gemini) THEN get_adapter(S_gemini, cfg, insts)
    ELSE IF startswith(model_lower, P_grok) THEN get_adapter(S_grok, cfg, insts)
    ELSE get_adapter(S_openai, cfg, insts)

\* Mutant: a model no prefix matches is handed to the Azure deployment.
get_adapter_for_model_azure(model, cfg, insts) ==
    LET model_lower == lower(model) IN
    IF startswith(model_lower, P_gpt) \/ startswith(model_lower, P_o1)
          \/ startswith(model_lower, P_textemb)
    THEN get_adapter(S_openai, cfg, insts)
    ELSE IF startswith(model_lower, P_claude) THEN get_adapter(S_claude, cfg, insts)
    ELSE IF startswith(model_lower, P_gemini) THEN get_adapter(S_gemini, cfg, insts)
    ELSE IF startswith(model_lower, P_grok) THEN get_adapter(S_grok, cfg, insts)
    ELSE get_adapter(S_azure, cfg, insts)

get_adapter_for_model(model, cfg, insts) ==
    LET model_lower == lower(model) IN
    IF startswith(model_lower, P_gpt) \/ startswith(model_lower, P_o1)
          \/ startswith(model_lower, P_textemb)
    THEN get_adapter(S_openai, cfg, insts)
    ELSE IF startswith(model_lower, P_claude) THEN get_adapter(S_claude, cfg, insts)
    ELSE IF startswith(model_lower, P_gemini) THEN get_adapter(S_gemini, cfg, insts)
    ELSE IF startswith(model_lower, P_grok) THEN get_adapter(S_grok, cfg, insts)
    ELSE Raised(ValueError("Unknown model: ", model), insts)

(***************************************************************************)
(* Python exception classes: the classes an `except C` clause matches.     *)
(***************************************************************************)
Bases(type) ==
    CASE type = "ValueError" -> {"ValueError", "Exception", "BaseException"}
      [] type = "NotImplementedError" ->
            {"NotImplementedError", "RuntimeError", "Exception", "BaseException"}
      [] type = "TypeError" -> {"TypeError", "Exception", "BaseException"}
      [] type = "Exception" -> {"Exception", "BaseException"}
      [] OTHER -> {"BaseException"}

isinstance(e, class) == class \in Bases(e.type)

\* str(e)
str(e) == [text |-> e.text, arg |-> e.arg, cause |-> e.cause]

NoDetail == str(NoError)

(***************************************************************************)
(* Adapter operations.  An operation either raises before any provider     *)
(* call, or issues one call to its provider client and awaits the reply.   *)
(***************************************************************************)
Raises(e) == [raises |-> TRUE, error |-> e, call |-> ""]

Awaits(call) == [raises |-> FALSE, error |-> NoError, call |-> call]

chat_completion(a) ==
    CASE a.cls = "OpenAIAdapter" -> Awaits("chat.completions.create")
      [] a.cls = "ClaudeAdapter" -> Awaits("messages.create")
      [] a.cls = "GeminiAdapter" ->
            Raises(NotImplementedError("Gemini chat completion not yet implemented"))
      [] a.cls = "GrokAdapter" ->
            Raises(NotImplementedError("Grok chat completion not yet implemented"))
      [] a.cls = "AzureAdapter" ->
            Raises(NotImplementedError("Azure chat completion not yet implemented"))
      [] a.cls = "BedrockAdapter" ->
            Raises(NotImplementedError("Bedrock chat completion not yet implemented"))

chat_completion_stream(a) ==
    CASE a.cls = "OpenAIAdapter" -> Awaits("chat.completions.create")
      [] a.cls = "ClaudeAdapter" -> Awaits("messages.stream")
      [] a.cls = "GeminiAdapter" ->
            Raises(NotImplementedError("Gemini streaming not yet implemented"))
      [] a.cls = "GrokAdapter" ->
            Raises(NotImplementedError("Grok streaming not yet implemented"))
      [] a.cls = "AzureAdapter" ->
            Raises(NotImplementedError("Azure streaming not yet implemented"))
      [] a.cls = "BedrockAdapter" ->
            Raises(NotImplementedError("Bedrock streaming not yet implemented"))

\* Mutant: ClaudeAdapter.create_embedding raises a plain Exception.
create_embedding_generic(a) ==
    IF a.cls = "OpenAIAdapter" THEN Awaits("embeddings.create")
    ELSE Raises(WrappedException("embeddings are not supported", ""))

create_embedding(a) ==
    CASE a.cls = "OpenAIAdapter" -> Awaits("embeddings.create")
      [] a.cls = "ClaudeAdapter" ->
            Raises(NotImplementedError("Claude does not support embeddings"))
      [] a.cls = "GeminiAdapter" ->
            Raises(NotImplementedError("Gemini embeddings not yet implemented"))
      [] a.cls = "GrokAdapter" ->
            Raises(NotImplementedError("Grok embeddings not yet implemented"))
      [] a.cls = "AzureAdapter" ->
            Raises(NotImplementedError("Azure embeddings not yet implemented"))
      [] a.cls = "BedrockAdapter" ->
            Raises(NotImplementedError("Bedrock embeddings not yet implemented"))

\* The `except Exception as e: raise Exception(f"...: {str(e)}")` wrappers.
ErrorPrefix(cls, op) ==
    CASE cls = "OpenAIAdapter" /\ op = "chat_completion" -> "OpenAI API error: "
      [] cls = "OpenAIAdapter" /\ op = "chat_completion_stream" -> "OpenAI streaming error: "
      [] cls = "OpenAIAdapter" /\ op = "create_embedding" -> "OpenAI embeddings error: "
      [] cls = "OpenAIAdapter" /\ op = "list_models" -> "OpenAI list models error: "
      [] cls = "ClaudeAdapter" /\ op = "chat_completion" -> "Claude API error: "
      [] cls = "ClaudeAdapter" /\ op = "chat_completion_stream" -> "Claude streaming error: "
      [] OTHER -> ""

\* Mutant: the wrapper raises ValueError.
AdapterFailure_value(cls, op, cause) ==
    Error("ValueError", ErrorPrefix(cls, op), EmptySeq, cause)

\* Mutant: the failure is re-raised without the adapter's prefix.
AdapterFailure_bare(cls, op, cause) == WrappedException("", cause)

\* Mutant: an upstream rejection of the client's request stays a ValueError.
AdapterFailure_client_error(cls, op, cause) ==
    IF cause = "invalid request"
    THEN Error("ValueError", ErrorPrefix(cls, op), EmptySeq, cause)
    ELSE WrappedException(ErrorPrefix(cls, op), cause)

AdapterFailure(cls, op, cause) == WrappedException(ErrorPrefix(cls, op), cause)

\* What a provider client call can raise.
UpstreamFailures == {"rate limit exceeded", "invalid request"}

\* The k-th chunk of a provider stream carries content k: the code never
\* inspects a chunk, so distinct contents stand for arbitrary ones.
ChunkAt(k) == <<k>>

(***************************************************************************)
(* Request context, responses and server-sent events.                      *)
(***************************************************************************)
UnsetSeq == <<Unset>>

\* http_request.state before the handler has set anything on it.
EmptyState ==
    [provider |-> Unset, model |-> UnsetSeq, is_streaming |-> Unset, usage |-> Unset,
     api_key |-> UnsetSeq]

\* adapter.__class__.__name__.replace("Adapter", "").lower()
ProviderOf(cls) ==
    CASE cls = "OpenAIAdapter" -> "openai"
      [] cls = "ClaudeAdapter" -> "claude"
      [] cls = "AzureAdapter" -> "azure"
      [] cls = "BedrockAdapter" -> "bedrock"
      [] cls = "GeminiAdapter" -> "gemini"
      [] cls = "GrokAdapter" -> "grok"
      [] OTHER -> ""

\* Request.stream is Optional[bool]; `if request.stream:` is Python truthiness.
StreamValues == {"True", "False", "None"}

\* Mutant: only an explicit false selects the non-streaming path.
Truthy_unless_false(b) == b # "False"

Truthy(b) == b = "True"

NoResponse == [status |-> 0, media |-> "", detail |-> NoDetail, body |-> ""]

HTTPException(status_code, detail) ==
    [status |-> status_code, media |-> "application/json", detail |-> detail, body |-> ""]

JSONResponse(body) ==
    [status |-> 200, media |-> "application/json", detail |-> NoDetail, body |-> body]

StreamingResponse ==
    [status |-> 200, media |-> "text/event-stream", detail |-> NoDetail, body |-> ""]

\* An exception no except clause of the handler matches leaves the handler.
Propagated(e) == [status |-> 0, media |-> "", detail |-> str(e), body |-> "propagated"]

\* Mutant: the except clauses in the other order.
handle_exception_swapped(e) ==
    IF isinstance(e, "Exception") THEN HTTPException(500, str(e))
    ELSE IF isinstance(e, "ValueError") THEN HTTPException(400, str(e))
    ELSE Propagated(e)

\* The handlers' `except ValueError` / `except Exception` clauses.
handle_exception(e) ==
    IF isinstance(e, "ValueError") THEN HTTPException(400, str(e))
    ELSE IF isinstance(e, "Exception") THEN HTTPException(500, str(e))
    ELSE Propagated(e)

\* What the adapters return on success: response.model_dump(), or the dict
\* ClaudeAdapter._convert_claude_to_openai builds.  Both are dicts.
ResponseDict(object) ==
    [pytype |-> "dict", object |-> object, keys |-> {"id", "object", "model", "usage"}]

\* hasattr(response, name): a dict's keys are not attributes.
hasattr(response, name) == response.pytype # "dict" /\ name \in response.keys

\* name in response
contains(response, name) == name \in response.keys

NoErrorBody == [message |-> NoDetail, type |-> ""]

\* No chunk: the empty payload.
NoChunk == <<>>

\* f"data: {json.dumps(chunk)}\n\n"
ChunkEvent(c) == [data |-> "json", chunk |-> c, error |-> NoErrorBody]

\* "data: [DONE]\n\n"
DoneEvent == [data |-> "[DONE]", chunk |-> NoChunk, error |-> NoErrorBody]

\* f"data: {json.dumps(error_data)}\n\n"
ErrorEvent(e) ==
    [data |-> "json", chunk |-> NoChunk,
     error |-> [message |-> str(e), type |-> "stream_error"]]

(***************************************************************************)
(* stream_generator.  Its positions: "pull" (awaiting the adapter's next   *)
(* item), "emit_chunk" / "emit_done" / "emit_error" (about to yield that   *)
(* event to the transport), "end" (returned), "crashed" (an exception      *)
(* left the generator).                                                    *)
(***************************************************************************)
NoGen == [pc |-> "none", chunk |-> NoChunk, error |-> NoError, ended |-> ""]

GenStart == [NoGen EXCEPT !.pc = "pull"]

\* Mutant: the generator keeps the chunk and asks for the next one.
on_chunk_buffering(g, c) == [g EXCEPT !.chunk = c]

\* `async for chunk in ...` received a chunk.
on_chunk(g, c) == [g EXCEPT !.pc = "emit_chunk", !.chunk = c]

\* `async for` ended: the adapter's sequence is exhausted.
on_exhausted(g) == [g EXCEPT !.pc = "emit_done", !.ended = "complete"]

\* Mutant: the generator catches ValueError only.
on_exception_narrow(g, e) ==
    IF isinstance(e, "ValueError")
    THEN [g EXCEPT !.pc = "emit_error", !.error = e, !.ended = "raised"]
    ELSE [g EXCEPT !.pc = "crashed", !.error = e, !.ended = "raised"]

\* Mutant: an exception raised before the first chunk leaves the generator.
on_exception_after_first_chunk(g, e) ==
    IF isinstance(e, "Exception") /\ e.type # "NotImplementedError"
    THEN [g EXCEPT !.pc = "emit_error", !.error = e, !.ended = "raised"]
    ELSE [g EXCEPT !.pc = "crashed", !.error = e, !.ended = "raised"]

\* The adapter's sequence raised: `except Exception as e`.
on_exception(g, e) ==
    IF isinstance(e, "Exception")
    THEN [g EXCEPT !.pc = "emit_error", !.error = e, !.ended = "raised"]
    ELSE [g EXCEPT !.pc = "crashed", !.error = e, !.ended = "raised"]

\* Mutant: the sentinel is passed through json.dumps like a chunk.
EventOf_dumped(g) ==
    CASE g.pc = "emit_chunk" -> ChunkEvent(g.chunk)
      [] g.pc = "emit_done" -> ChunkEvent(NoChunk)
      [] g.pc = "emit_error" -> ErrorEvent(g.error)

\* The event the generator yields at its current position.
EventOf(g) ==
    CASE g.pc = "emit_chunk" -> ChunkEvent(g.chunk)
      [] g.pc = "emit_done" -> DoneEvent
      [] g.pc = "emit_error" -> ErrorEvent(g.error)

\* Mutant: the sentinel is yielded after the error event as well.
AfterYield_done_after_error(g) ==
    IF g.pc = "emit_chunk" THEN [g EXCEPT !.pc = "pull", !.chunk = NoChunk]
    ELSE IF g.pc = "emit_error" THEN [g EXCEPT !.pc = "emit_done"]
    ELSE [g EXCEPT !.pc = "end"]

\* Where the generator goes when the transport resumes it after a yield.
AfterYield(g) ==
    IF g.pc = "emit_chunk" THEN [g EXCEPT !.pc = "pull", !.chunk = NoChunk]
    ELSE [g EXCEPT !.pc = "end"]

(***************************************************************************)
(* The state machine.  Requests are served one at a time: handlers share   *)
(* no mutable state, so interleaving two of them adds no behaviour.        *)
(***************************************************************************)
NoRequest ==
    [endpoint |-> "none", model |-> EmptySeq, stream |-> "None", provider |-> EmptySeq]

NoResult == Raised(NoError, EmptySeq)

\* The sets of credentials that are present in the settings explored.
CredentialSets ==
    { S \in SUBSET CredNames :
        Cardinality(S) <= MaxDeviation \/ Cardinality(CredNames \ S) <= MaxDeviation }

\* No request is being served.
Quiescent ==
    /\ instances = <<>>
    /\ resolved = <<>>
    /\ nreq = 0
    /\ pc = "idle"
    /\ req = NoRequest
    /\ ret = NoResult
    /\ adapter = NoAdapter
    /\ state = EmptyState
    /\ resp = NoResponse
    /\ calls = <<>>
    /\ upstream = <<>>
    /\ raisedErr = NoError
    /\ gen = NoGen
    /\ produced = <<>>
    /\ wire = <<>>
    /\ all_models = <<>>
    /\ warnings = <<>>

\* Settings are read once, at import; an absent credential is None (unset
\* variable) or "" (set but empty).
InitSettings ==
    \E absent \in {NoneVal, EmptyStr}, S \in CredentialSets :
        settings = [c \in CredNames |-> IF c \in S THEN KeyVal ELSE absent]

NoValue == <<>>

Init ==
    /\ InitSettings
    /\ Quiescent
    /\ fnarg = NoValue
    /\ fnret = NoValue

CanStart == pc = "idle" /\ nreq < MaxRequests

Invocation(a, op) == [id |-> a.id, op |-> op]

\* The effect of an AdapterFactory call on the process.
Resolve(r) ==
    /\ ret' = r
    /\ instances' = r.instances
    /\ resolved' = IF r.ok THEN Append(resolved, r.adapter) ELSE resolved

\* AdapterFactory.get_adapter(name), called directly.
GetAdapterCall(name) ==
    /\ CanStart
    /\ nreq' = nreq + 1
    /\ req' = [NoRequest EXCEPT !.endpoint = "get_adapter", !.provider = name]
    /\ Resolve(get_adapter(name, settings, instances))
    /\ pc' = "done"
    /\ adapter' = NoAdapter /\ state' = EmptyState /\ resp' = NoResponse
    /\ calls' = <<>> /\ upstream' = <<>> /\ raisedErr' = NoError
    /\ gen' = NoGen /\ produced' = <<>> /\ wire' = <<>>
    /\ UNCHANGED settings
    /\ UNCHANGED aux

\* POST /v1/chat/completions, up to the handler's first suspension.
ChatCompletionRequest(model, stream) ==
    LET r  == get_adapter_for_model(model, settings, instances)
        st == [EmptyState EXCEPT !.provider = ProviderOf(r.adapter.cls),
                                 !.model = model, !.is_streaming = stream]
        op == chat_completion(r.adapter)
    IN
    /\ CanStart
    /\ nreq' = nreq + 1
    /\ req' = [NoRequest EXCEPT !.endpoint = "chat", !.model = model, !.stream = stream]
    /\ Resolve(r)
    /\ produced' = <<>> /\ wire' = <<>>
    /\ IF ~r.ok THEN
            /\ adapter' = NoAdapter /\ state' = EmptyState
            /\ resp' = handle_exception(r.error)
            /\ pc' = "done"
            /\ calls' = <<>> /\ upstream' = <<>> /\ raisedErr' = NoError /\ gen' = NoGen
       ELSE IF Truthy(stream) THEN
            /\ adapter' = r.adapter /\ state' = st
            /\ resp' = StreamingResponse
            /\ pc' = "streaming"
            /\ gen' = GenStart
            /\ calls' = <<>> /\ upstream' = <<>> /\ raisedErr' = NoError
       ELSE
            /\ adapter' = r.adapter /\ state' = st
            /\ calls' = <<Invocation(r.adapter, "chat_completion")>>
            /\ gen' = NoGen
            /\ IF op.raises THEN
                    /\ raisedErr' = op.error
                    /\ resp' = handle_exception(op.error)
                    /\ upstream' = <<>>
                    /\ pc' = "done"
               ELSE
                    /\ raisedErr' = NoError
                    /\ resp' = NoResponse
                    /\ upstream' = <<op.call>>
                    /\ pc' = "await_chat"
    /\ UNCHANGED settings
    /\ UNCHANGED aux

\* The provider client's reply to a non-streaming chat call.
UpstreamChatReply(outcome) ==
    LET response == ResponseDict("chat.completion")
        e == AdapterFailure(adapter.cls, "chat_completion", outcome)
    IN
    /\ pc = "await_chat"
    /\ pc' = "done"
    /\ IF outcome = "ok" THEN
            /\ state' = IF hasattr(response, "usage")
                        THEN [state EXCEPT !.usage = "usage"] ELSE state
            /\ resp' = JSONResponse(response.object)
            /\ raisedErr' = NoError
       ELSE
            /\ state' = state
            /\ raisedErr' = e
            /\ resp' = handle_exception(e)
    /\ UNCHANGED <<settings, instances, resolved, nreq, req, ret, adapter, calls,
                   upstream, gen, produced, wire>>
    /\ UNCHANGED aux

\* POST /v1/embeddings, up to the handler's first suspension.
EmbeddingRequest(model) ==
    LET r  == get_adapter_for_model(model, settings, instances)
        st == [EmptyState EXCEPT !.provider = ProviderOf(r.adapter.cls), !.model = model]
        op == create_embedding(r.adapter)
    IN
    /\ CanStart
    /\ nreq' = nreq + 1
    /\ req' = [NoRequest EXCEPT !.endpoint = "embeddings", !.model = model]
    /\ Resolve(r)
    /\ produced' = <<>> /\ wire' = <<>> /\ gen' = NoGen
    /\ IF ~r.ok THEN
            /\ adapter' = NoAdapter /\ state' = EmptyState
            /\ resp' = handle_exception(r.error)
            /\ pc' = "done"
            /\ calls' = <<>> /\ upstream' = <<>> /\ raisedErr' = NoError
       ELSE
            /\ adapter' = r.adapter /\ state' = st
            /\ calls' = <<Invocation(r.adapter, "create_embedding")>>
            /\ IF op.raises THEN
                    /\ raisedErr' = op.error
                    /\ resp' = handle_exception(op.error)
                    /\ upstream' = <<>>
                    /\ pc' = "done"
               ELSE
                    /\ raisedErr' = NoError
                    /\ resp' = NoResponse
                    /\ upstream' = <<op.call>>
                    /\ pc' = "await_embedding"
    /\ UNCHANGED settings
    /\ UNCHANGED aux

\* The provider client's reply to an embeddings call.
UpstreamEmbeddingReply(outcome) ==
    LET response == ResponseDict("list")
        e == AdapterFailure(adapter.cls, "create_embedding", outcome)
    IN
    /\ pc = "await_embedding"
    /\ pc' = "done"
    /\ IF outcome = "ok" THEN
            /\ state' = IF contains(response, "usage")
                        THEN [state EXCEPT !.usage = "usage"] ELSE state
            /\ resp' = JSONResponse(response.object)
            /\ raisedErr' = NoError
       ELSE
            /\ state' = state
            /\ raisedErr' = e
            /\ resp' = handle_exception(e)
    /\ UNCHANGED <<settings, instances, resolved, nreq, req, ret, adapter, calls,
                   upstream, gen, produced, wire>>
    /\ UNCHANGED aux

\* What the adapter's stream does when asked for its next item.
StreamOutcomes ==
    [kind : {"chunk", "end"}, failure : {""}]
        \cup [kind : {"raise"}, failure : UpstreamFailures]

\* stream_generator asks adapter.chat_completion_stream(...) for its next
\* item.  The first request runs the adapter's generator from its start.
StreamPull(outcome) ==
    LET first == calls = <<>>
        op == chat_completion_stream(adapter)
        e == AdapterFailure(adapter.cls, "chat_completion_stream", outcome.failure)
        c == ChunkAt(Len(produced) + 1)
    IN
    /\ pc = "streaming"
    /\ gen.pc = "pull"
    /\ outcome.kind = "chunk" => Len(produced) < MaxChunks
    /\ calls' = IF first THEN <<Invocation(adapter, "chat_completion_stream")>> ELSE calls
    /\ IF first /\ op.raises THEN
            /\ raisedErr' = op.error
            /\ gen' = on_exception(gen, op.error)
            /\ UNCHANGED <<upstream, produced>>
       ELSE
            /\ upstream' = IF first THEN <<op.call>> ELSE upstream
            /\ CASE outcome.kind = "chunk" ->
                        /\ produced' = Append(produced, c)
                        /\ gen' = on_chunk(gen, c)
                        /\ raisedErr' = raisedErr
                   [] outcome.kind = "end" ->
                        /\ gen' = on_exhausted(gen)
                        /\ UNCHANGED <<produced, raisedErr>>
                   [] outcome.kind = "raise" ->
                        /\ raisedErr' = e
                        /\ gen' = on_exception(gen, e)
                        /\ UNCHANGED produced
    /\ UNCHANGED <<settings, instances, resolved, nreq, pc, req, ret, adapter,
                   state, resp, wire>>
    /\ UNCHANGED aux

\* stream_generator yields its pending event to the transport and is
\* resumed; after the sentinel or the error event it returns.
StreamEmit ==
    /\ pc = "streaming"
    /\ gen.pc \in {"emit_chunk", "emit_done", "emit_error"}
    /\ wire' = Append(wire, EventOf(gen))
    /\ gen' = AfterYield(gen)
    /\ pc' = IF gen'.pc = "end" THEN "done" ELSE pc
    /\ UNCHANGED <<settings, instances, resolved, nreq, req, ret, adapter, state,
                   resp, calls, upstream, raisedErr, produced>>
    /\ UNCHANGED aux

\* The response has been sent: the request's objects (request, response,
\* http_request.state, the generator) are discarded.
RequestDone ==
    /\ pc = "done"
    /\ pc' = "idle"
    /\ req' = NoRequest /\ ret' = NoResult /\ adapter' = NoAdapter
    /\ state' = EmptyState /\ resp' = NoResponse
    /\ calls' = <<>> /\ upstream' = <<>> /\ raisedErr' = NoError
    /\ gen' = NoGen /\ produced' = <<>> /\ wire' = <<>>
    /\ UNCHANGED <<settings, instances, resolved, nreq>>
    /\ all_models' = <<>> /\ warnings' = <<>>
    /\ UNCHANGED <<fnarg, fnret>>

Next ==
    \/ \E name \in ProviderNames : GetAdapterCall(name)
    \/ \E model \in ModelIds, stream \in StreamValues : ChatCompletionRequest(model, stream)
    \/ \E outcome \in {"ok"} \cup UpstreamFailures : UpstreamChatReply(outcome)
    \/ \E model \in ModelIds : EmbeddingRequest(model)
    \/ \E outcome \in {"ok"} \cup UpstreamFailures : UpstreamEmbeddingReply(outcome)
    \/ \E outcome \in StreamOutcomes : StreamPull(outcome)
    \/ StreamEmit
    \/ RequestDone

Spec == Init /\ [][Next]_vars

(***************************************************************************)
(* Properties.                                                             *)
(***************************************************************************)
\* The routing table of the specification: prefix, adapter class, and the
\* credentials the provider requires.
RoutingTable ==
    { [prefix |-> P_gpt,     cls |-> "OpenAIAdapter", creds |-> {"OPENAI_API_KEY"}],
      [prefix |-> P_o1,      cls |-> "OpenAIAdapter", creds |-> {"OPENAI_API_KEY"}],
      [prefix |-> P_textemb, cls |-> "OpenAIAdapter", creds |-> {"OPENAI_API_KEY"}],
      [prefix |-> P_claude,  cls |-> "ClaudeAdapter", creds |-> {"ANTHROPIC_API_KEY"}],
      [prefix |-> P_gemini,  cls |-> "GeminiAdapter", creds |-> {"GEMINI_API_KEY"}],
      [prefix |-> P_grok,    cls |-> "GrokAdapter",   creds |-> {"GROK_API_KEY"}] }

Present(creds) == \A c \in creds : settings[c] # NoneVal /\ settings[c] # EmptyStr

\* The operation in progress resolved its adapter from req.model.
ByModel == req.endpoint \in {"chat", "embeddings"}

UnknownModel == ~ret.ok /\ ret.adapter = NoAdapter
                   /\ ret.error = ValueError("Unknown model: ", req.model)

\* C1 (as stated): an identifier that starts with a registered prefix, as the
\* prefix is written, resolves to that prefix's adapter when the provider's
\* credentials are present; an identifier that starts with none of the
\* registered prefixes fails with the unknown-model error.
C1_AsStated ==
    ByModel =>
        /\ \A row \in RoutingTable :
              startswith(req.model, row.prefix) /\ Present(row.creds)
                  => ret.ok /\ ret.adapter.cls = row.cls
        /\ (\A row \in RoutingTable : ~startswith(req.model, row.prefix))
              => UnknownModel

\* C1 (amended): prefixes are matched against the lower-cased identifier.
\* An identifier whose lower-cased form starts with a registered prefix
\* resolves to that prefix's adapter when the provider's credentials are
\* present; one whose lower-cased form starts with none of them fails with
\* the unknown-model error and yields no adapter.
C1_PrefixRouting ==
    ByModel =>
        LET model_lower == lower(req.model) IN
        /\ \A row \in RoutingTable :
              startswith(model_lower, row.prefix) /\ Present(row.creds)
                  => ret.ok /\ ret.adapter.cls = row.cls
        /\ (\A row \in RoutingTable : ~startswith(model_lower, row.prefix))
              => UnknownModel

C1_Witness ==
    /\ ByModel
    /\ req.model = <<"G","P","T","-","4">>
    /\ ret.ok /\ ret.adapter.cls = "OpenAIAdapter"

\* The providers get_adapter is documented to recognise, with the adapter
\* class, the credentials each requires and the message of the error raised
\* when one of them is absent.
ProviderTable ==
    { [name |-> S_openai,  cls |-> "OpenAIAdapter",  creds |-> {"OPENAI_API_KEY"},
       missing |-> "OPENAI_API_KEY not configured"],
      [name |-> S_claude,  cls |-> "ClaudeAdapter",  creds |-> {"ANTHROPIC_API_KEY"},
       missing |-> "ANTHROPIC_API_KEY not configured"],
      [name |-> S_azure,   cls |-> "AzureAdapter",
       creds |-> {"AZURE_OPENAI_API_KEY", "AZURE_OPENAI_ENDPOINT"},
       missing |-> "Azure OpenAI credentials not configured"],
      [name |-> S_bedrock, cls |-> "BedrockAdapter",
       creds |-> {"AWS_ACCESS_KEY_ID", "AWS_SECRET_ACCESS_KEY"},
       missing |-> "AWS credentials not configured"],
      [name |-> S_gemini,  cls |-> "GeminiAdapter",  creds |-> {"GEMINI_API_KEY"},
       missing |-> "GEMINI_API_KEY not configured"],
      [name |-> S_grok,    cls |-> "GrokAdapter",    creds |-> {"GROK_API_KEY"},
       missing |-> "GROK_API_KEY not configured"] }

UnsupportedProvider ==
    ~ret.ok /\ ret.error = ValueError("Unsupported provider: ", req.provider)

\* C2: get_adapter(name) matches the lower-cased name exactly against the
\* recognised providers.  A recognised name with a required credential absent
\* fails with that provider's not-configured error, a recognised name with all
\* credentials present returns the provider's adapter, and any other name
\* fails with the unsupported-provider error, whose message differs from
\* every not-configured message.
C2_ProviderResolution ==
    req.endpoint = "get_adapter" =>
        LET rows == { row \in ProviderTable : row.name = lower(req.provider) } IN
        /\ rows = {} => UnsupportedProvider
        /\ \A row \in rows :
              IF Present(row.creds)
              THEN ret.ok /\ ret.adapter.cls = row.cls
              ELSE /\ ~ret.ok
                   /\ ret.error = ValueError(row.missing, EmptySeq)
                   /\ ret.error.text # "Unsupported provider: "

C2_Witness ==
    /\ req.endpoint = "get_adapter"
    /\ req.provider = <<"O","p","e","n","A","I">>
    /\ ret.ok /\ ret.adapter.cls = "OpenAIAdapter"

ChunkEvents(chunks) == [i \in 1..Len(chunks) |-> ChunkEvent(chunks[i])]

\* C4: when the adapter's stream has yielded chunks c1..cN and then ended
\* without raising, and the generator has returned, the events handed to the
\* transport are exactly the N chunk events in the adapter's order followed by
\* one [DONE] event, and the response is complete.
C4_CleanStream ==
    (gen.pc = "end" /\ gen.ended = "complete") =>
        /\ wire = ChunkEvents(produced) \o <<DoneEvent>>
        /\ pc = "done"

C4_Witness ==
    /\ gen.pc = "end" /\ gen.ended = "complete"
    /\ Len(produced) = 2
    /\ Len(wire) = 3

\* C5: when the adapter's stream raises after k chunks, the generator yields
\* the k chunk events, then one error event carrying the exception's message,
\* and returns; no exception leaves the generator, the response status stays
\* 200, and while the response is streaming the generator can always take a
\* step.
C5_FailedStream ==
    /\ gen.pc # "crashed"
    /\ gen.ended = "raised" => gen.pc \in {"emit_error", "end"}
    /\ (gen.pc = "emit_error") => wire = ChunkEvents(produced)
    /\ (gen.pc = "end" /\ gen.ended = "raised") =>
            /\ wire = ChunkEvents(produced) \o <<ErrorEvent(raisedErr)>>
            /\ resp.status = 200
            /\ pc = "done"
    /\ pc = "streaming" =>
            \/ gen.pc \in {"emit_chunk", "emit_done", "emit_error"}
            \/ gen.pc = "pull" /\ ENABLED StreamPull([kind |-> "end", failure |-> ""])

C5_Witness ==
    /\ gen.pc = "end" /\ gen.ended = "raised"
    /\ Len(produced) = 1
    /\ raisedErr.cause = "rate limit exceeded"
    /\ Len(wire) = 2

\* C6: on the chat and embeddings endpoints a failed resolution ends the
\* request at once with status 400, and no adapter operation, provider call or
\* stream event occurs for it.
C6_ResolutionFailureIs400 ==
    (ByModel /\ ~ret.ok) =>
        /\ pc = "done"
        /\ resp.status = 400
        /\ resp.detail = str(ret.error)
        /\ calls = <<>> /\ upstream = <<>> /\ wire = <<>>

C6_Witness ==
    /\ req.endpoint = "embeddings"
    /\ ~ret.ok
    /\ ret.error.text = "OPENAI_API_KEY not configured"
    /\ resp.status = 400

\* C7: on a non-streaming chat or embeddings request with a resolved adapter,
\* a provider failure raised by the adapter is answered with status 500 and
\* no response body.
C7_ProviderFailureIs500 ==
    (ByModel /\ ~Truthy(req.stream) /\ ret.ok /\ raisedErr.cause # "") =>
        /\ pc = "done"
        /\ resp.status = 500
        /\ resp.body = ""
        /\ resp.detail = str(raisedErr)

C7_Witness ==
    /\ req.endpoint = "chat" /\ req.stream = "False"
    /\ adapter.cls = "ClaudeAdapter"
    /\ raisedErr.cause = "invalid request"
    /\ resp.status = 500

\* C8: a completed request routed to the Gemini or Grok adapter is answered
\* with status 501.
C8_Unimplemented501 ==
    (pc = "done" /\ ByModel /\ adapter.cls \in {"GeminiAdapter", "GrokAdapter"})
        => resp.status = 501

\* C9: create_embedding on a ClaudeAdapter raises NotImplementedError (not a
\* plain Exception) naming the missing capability, without any call to the
\* provider client.
C9_ClaudeEmbeddingUnsupported ==
    (req.endpoint = "embeddings" /\ adapter.cls = "ClaudeAdapter") =>
        /\ calls = <<Invocation(adapter, "create_embedding")>>
        /\ raisedErr = NotImplementedError("Claude does not support embeddings")
        /\ raisedErr.type # "Exception"
        /\ upstream = <<>>

C9_Witness ==
    /\ req.endpoint = "embeddings" /\ adapter.cls = "ClaudeAdapter"
    /\ calls # <<>>
    /\ pc = "done"

\* C10: a completed embeddings request routed to the Claude adapter is
\* answered with a 400-class status whose message names the missing
\* capability.
C10_CapabilityGap400 ==
    (pc = "done" /\ req.endpoint = "embeddings" /\ adapter.cls = "ClaudeAdapter") =>
        /\ resp.status \in 400..499
        /\ resp.detail.text = "Claude does not support embeddings"

(***************************************************************************)
(* Error bodies.                                                           *)
(***************************************************************************)
\* The JSON object a raised HTTPException(status_code, detail=...) is
\* answered with.
HTTPExceptionBody(r) == [detail |-> r.detail]

\* error_data of stream_generator: the JSON object of an error event.
error_data(ev) == [error |-> ev.error]

\* The error envelope of the specification.
IsErrorEnvelope(obj) ==
    /\ "error" \in DOMAIN obj
    /\ {"message", "type", "code"} \subseteq DOMAIN obj.error

\* C11: every error response of the chat and embeddings endpoints, whether an
\* HTTP error body or an in-band stream error event, is a JSON object with the
\* single top-level key "error" whose value has the fields message, type and
\* code.
C11_ErrorEnvelope ==
    /\ (pc = "done" /\ ByModel /\ resp.status >= 400)
            => IsErrorEnvelope(HTTPExceptionBody(resp))
    /\ \A i \in 1..Len(wire) :
            wire[i].error # NoErrorBody => IsErrorEnvelope(error_data(wire[i]))

(***************************************************************************)
(* ClaudeAdapter._convert_messages_to_claude, applied to bounded message   *)
(* lists.  A message is what request.model_dump(exclude_none=True) gives:  *)
(* role, content and, when it was sent, name.                              *)
(***************************************************************************)
\* Messages in one request.
MaxMessages == 3

Roles == {"system", "user", "assistant"}

\* Message contents, as character sequences ("" included).
Contents == {<<>>, <<"a">>, <<"b">>}

Messages ==
    [role : Roles, content : Contents, name : {NoneVal}]
        \cup [role : {"user"}, content : Contents, name : {"n"}]

RECURSIVE SeqsUpTo(_, _)
SeqsUpTo(S, n) ==
    IF n = 0 THEN {<<>>}
    ELSE LET shorter == SeqsUpTo(S, n - 1)
         IN shorter \cup {Append(s, x) : s \in shorter, x \in S}

\* The dict appended to claude_messages for a non-system message.
claude_message(msg) == [role |-> msg.role, content |-> msg.content]

\* The body of `for msg in messages:`.
RECURSIVE for_msg_in(_, _, _)
for_msg_in(messages, system_prompt, claude_messages) ==
    IF messages = <<>>
    THEN [system_prompt |-> system_prompt, claude_messages |-> claude_messages]
    ELSE LET msg == Head(messages) IN
         IF msg.role = "system"
         THEN for_msg_in(Tail(messages), msg.content, claude_messages)
         ELSE for_msg_in(Tail(messages), system_prompt,
                         Append(claude_messages, claude_message(msg)))

\* Mutant: the turns are collected in reverse.
RECURSIVE for_msg_in_reversed(_, _, _)
for_msg_in_reversed(messages, system_prompt, claude_messages) ==
    IF messages = <<>>
    THEN [system_prompt |-> system_prompt, claude_messages |-> claude_messages]
    ELSE LET msg == Head(messages) IN
         IF msg.role = "system"
         THEN for_msg_in_reversed(Tail(messages), msg.content, claude_messages)
         ELSE for_msg_in_reversed(Tail(messages), system_prompt,
                                  <<claude_message(msg)>> \o claude_messages)

_convert_messages_to_claude_reversed(messages) ==
    for_msg_in_reversed(messages, <<>>, <<>>)

_convert_messages_to_claude(messages) == for_msg_in(messages, <<>>, <<>>)

NoConversion == [system_prompt |-> <<>>, claude_messages |-> <<>>]

InitMessages ==
    /\ settings = [c \in CredNames |-> KeyVal]
    /\ Quiescent
    /\ fnarg \in SeqsUpTo(Messages, MaxMessages)
    /\ fnret = NoConversion

\* ClaudeAdapter.chat_completion converts the request's messages.
ConvertMessages ==
    /\ pc = "idle"
    /\ pc' = "done"
    /\ fnret' = _convert_messages_to_claude(fnarg)
    /\ UNCHANGED <<settings, instances, resolved, nreq, req, ret, adapter, state,
                   resp, calls, upstream, raisedErr, gen, produced, wire,
                   all_models, warnings, fnarg>>

NextMessages == ConvertMessages

SpecMessages == InitMessages /\ [][NextMessages]_vars

IsSystem(msg) == msg.role = "system"

IsTurn(msg) == msg.role # "system"

SystemMessages(messages) == SelectSeq(messages, IsSystem)

\* C12: for a message list with exactly one system message, the conversion
\* returns that message's content as the system string, and as the turn list
\* exactly the non-system messages, role and content unchanged, in their
\* original relative order.
C12_SingleSystemMessage ==
    (pc = "done" /\ Len(SystemMessages(fnarg)) = 1) =>
        LET turns == SelectSeq(fnarg, IsTurn) IN
        /\ fnret.system_prompt = SystemMessages(fnarg)[1].content
        /\ Len(fnret.claude_messages) = Len(turns)
        /\ \A i \in 1..Len(turns) :
                /\ fnret.claude_messages[i].role = turns[i].role
                /\ fnret.claude_messages[i].content = turns[i].content

\* A system message between two different turns has been converted.
C12_Witness ==
    /\ pc = "done"
    /\ Len(fnarg) = 3
    /\ fnarg[1].role = "user" /\ fnarg[2].role = "system" /\ fnarg[3].role = "assistant"
    /\ fnarg[2].content # <<>>
    /\ fnarg[1].content # fnarg[3].content

RECURSIVE Concat(_)
Concat(strings) ==
    IF strings = <<>> THEN <<>> ELSE Head(strings) \o Concat(Tail(strings))

\* C13: for a message list with more than one system message, the system
\* string is the concatenation of all the system messages' contents, in
\* first-to-last order.
C13_SystemMessagesConcatenated ==
    (pc = "done" /\ Len(SystemMessages(fnarg)) > 1) =>
        fnret.system_prompt =
            Concat([i \in 1..Len(SystemMessages(fnarg)) |-> SystemMessages(fnarg)[i].content])

(***************************************************************************)
(* Token usage of a chat response: what chat_completion returns for a      *)
(* provider response.                                                      *)
(***************************************************************************)
\* Largest token count a provider response reports.
MaxTokens == 7

\* claude_response.usage of the Anthropic client.
ClaudeResponses ==
    [cls : {"ClaudeAdapter"},
     usage : [input_tokens : 0..MaxTokens, output_tokens : 0..MaxTokens]]

\* response.usage of the OpenAI client; the provider reports the total of
\* the two counts it reports.
OpenAIResponses ==
    { [cls |-> "OpenAIAdapter",
       usage |-> [prompt_tokens |-> p, completion_tokens |-> c, total_tokens |-> p + c]] :
        p \in 0..MaxTokens, c \in 0..MaxTokens }

\* Mutant: the total leaves the output tokens out.
_convert_claude_to_openai_input_only(claude_response) ==
    [object |-> "chat.completion",
     usage |-> [prompt_tokens |-> claude_response.usage.input_tokens,
                completion_tokens |-> claude_response.usage.output_tokens,
                total_tokens |-> claude_response.usage.input_tokens]]

\* ClaudeAdapter._convert_claude_to_openai: the "usage" entry of the dict.
_convert_claude_to_openai(claude_response) ==
    [object |-> "chat.completion",
     usage |-> [prompt_tokens |-> claude_response.usage.input_tokens,
                completion_tokens |-> claude_response.usage.output_tokens,
                total_tokens |-> claude_response.usage.input_tokens
                                    + claude_response.usage.output_tokens]]

\* response.model_dump(): the provider's fields, unchanged.
model_dump(response) == [object |-> "chat.completion", usage |-> response.usage]

NoChatResponse ==
    [object |-> "", usage |-> [prompt_tokens |-> 0, completion_tokens |-> 0, total_tokens |-> 0]]

InitUsage ==
    /\ settings = [c \in CredNames |-> KeyVal]
    /\ Quiescent
    /\ fnarg \in ClaudeResponses \cup OpenAIResponses
    /\ fnret = NoChatResponse

UsageUnchanged ==
    UNCHANGED <<settings, instances, resolved, nreq, req, ret, adapter, state, resp,
                calls, upstream, raisedErr, gen, produced, wire, all_models,
                warnings, fnarg>>

\* ClaudeAdapter.chat_completion returns the converted provider response.
ClaudeChatCompletionReturn ==
    /\ pc = "idle" /\ fnarg.cls = "ClaudeAdapter"
    /\ pc' = "done"
    /\ fnret' = _convert_claude_to_openai(fnarg)
    /\ UsageUnchanged

\* OpenAIAdapter.chat_completion returns the dumped provider response.
OpenAIChatCompletionReturn ==
    /\ pc = "idle" /\ fnarg.cls = "OpenAIAdapter"
    /\ pc' = "done"
    /\ fnret' = model_dump(fnarg)
    /\ UsageUnchanged

NextUsage == ClaudeChatCompletionReturn \/ OpenAIChatCompletionReturn

SpecUsage == InitUsage /\ [][NextUsage]_vars

Descriptor(id, owned_by) == [id |-> id, object |-> "model", owned_by |-> owned_by]

ClaudeCatalog ==
    << Descriptor("claude-3-5-sonnet-20241022", "anthropic"),
       Descriptor("claude-3-5-sonnet-20240620", "anthropic"),
       Descriptor("claude-3-opus-20240229", "anthropic"),
       Descriptor("claude-3-sonnet-20240229", "anthropic"),
       Descriptor("claude-3-haiku-20240307", "anthropic"),
       Descriptor("claude-2.1", "anthropic"),
       Descriptor("claude-2.0", "anthropic") >>

GeminiCatalog ==
    << Descriptor("gemini-pro", "google"), Descriptor("gemini-pro-vision", "google") >>

GrokCatalog == << Descriptor("grok-1", "xai") >>

AzureCatalog ==
    << Descriptor("gpt-4", "azure-openai"), Descriptor("gpt-35-turbo", "azure-openai") >>

BedrockCatalog ==
    << Descriptor("anthropic.claude-v2", "aws-bedrock"),
       Descriptor("anthropic.claude-instant-v1", "aws-bedrock") >>

\* What the OpenAI client's models.list() does: a catalog (possibly empty,
\* possibly naming a model another provider also names), or a failure.
ModelsListOutcomes ==
    [kind : {"ok"}, failure : {""},
     data : { << Descriptor("gpt-4", "openai"), Descriptor("gpt-3.5-turbo", "openai") >>,
              << Descriptor("gpt-4", "azure-openai") >>,
              << >> }]
        \cup [kind : {"raise"}, failure : UpstreamFailures, data : {<< >>}]

TypeError(text) == Error("TypeError", text, EmptySeq, "")

\* adapter.list_models: whether the method is a coroutine function
\* (`async def`), the client call it awaits, and the catalog it returns
\* without one.
list_models(a) ==
    CASE a.cls = "OpenAIAdapter" -> [async |-> TRUE, call |-> "models.list", data |-> << >>]
      [] a.cls = "ClaudeAdapter" -> [async |-> TRUE, call |-> "", data |-> ClaudeCatalog]
      [] a.cls = "GeminiAdapter" -> [async |-> FALSE, call |-> "", data |-> GeminiCatalog]
      [] a.cls = "GrokAdapter" -> [async |-> FALSE, call |-> "", data |-> GrokCatalog]
      [] a.cls = "AzureAdapter" -> [async |-> FALSE, call |-> "", data |-> AzureCatalog]
      [] a.cls = "BedrockAdapter" -> [async |-> FALSE, call |-> "", data |-> BedrockCatalog]

Fetched(data) == [raises |-> FALSE, error |-> NoError, data |-> data]

FetchRaised(e) == [raises |-> TRUE, error |-> e, data |-> << >>]

\* models_response = await adapter.list_models()
\* Awaiting the dict a plain `def` returns raises TypeError.
await_list_models(a, outcome) ==
    LET m == list_models(a) IN
    IF ~m.async
    THEN FetchRaised(TypeError("object dict can't be used in 'await' expression"))
    ELSE IF m.call = "" THEN Fetched(m.data)
    ELSE IF outcome.kind = "ok" THEN Fetched(outcome.data)
    ELSE FetchRaised(AdapterFailure(a.cls, "list_models", outcome.failure))

\* The `providers` list the handler builds from the settings.
\* Mutant: the handler looks at one credential per provider.
configured_providers_first_key(cfg) ==
    (IF Falsy(cfg["OPENAI_API_KEY"]) THEN << >> ELSE <<S_openai>>)
    \o (IF Falsy(cfg["ANTHROPIC_API_KEY"]) THEN << >> ELSE <<S_claude>>)
    \o (IF Falsy(cfg["GEMINI_API_KEY"]) THEN << >> ELSE <<S_gemini>>)
    \o (IF Falsy(cfg["GROK_API_KEY"]) THEN << >> ELSE <<S_grok>>)
    \o (IF Falsy(cfg["AZURE_OPENAI_API_KEY"]) THEN << >> ELSE <<S_azure>>)
    \o (IF Falsy(cfg["AWS_ACCESS_KEY_ID"]) THEN << >> ELSE <<S_bedrock>>)

configured_providers(cfg) ==
    (IF Falsy(cfg["OPENAI_API_KEY"]) THEN << >> ELSE <<S_openai>>)
    \o (IF Falsy(cfg["ANTHROPIC_API_KEY"]) THEN << >> ELSE <<S_claude>>)
    \o (IF Falsy(cfg["GEMINI_API_KEY"]) THEN << >> ELSE <<S_gemini>>)
    \o (IF Falsy(cfg["GROK_API_KEY"]) THEN << >> ELSE <<S_grok>>)
    \o (IF Falsy(cfg["AZURE_OPENAI_API_KEY"]) \/ Falsy(cfg["AZURE_OPENAI_ENDPOINT"])
        THEN << >> ELSE <<S_azure>>)
    \o (IF Falsy(cfg["AWS_ACCESS_KEY_ID"]) \/ Falsy(cfg["AWS_SECRET_ACCESS_KEY"])
        THEN << >> ELSE <<S_bedrock>>)

\* The handler's locals while it walks `providers`.
Walk(insts, res, models, warns, cs, ups) ==
    [instances |-> insts, resolved |-> res, all_models |-> models,
     warnings |-> warns, calls |-> cs, upstream |-> ups]

\* One iteration of `for provider in providers:`, from the state w.
fetch_models(provider, cfg, outcome, w) ==
    LET r == get_adapter(provider, cfg, w.instances)
        m == await_list_models(r.adapter, outcome)
    IN
    IF ~r.ok
    THEN [w EXCEPT !.warnings = Append(@, [provider |-> provider, error |-> r.error])]
    ELSE LET called ==
                [w EXCEPT !.instances = r.instances,
                          !.resolved = Append(@, r.adapter),
                          !.calls = Append(@, Invocation(r.adapter, "list_models")),
                          !.upstream = IF list_models(r.adapter).async
                                          /\ list_models(r.adapter).call # ""
                                       THEN Append(@, outcome) ELSE @]
         IN IF m.raises
            THEN [called EXCEPT !.warnings = Append(@, [provider |-> provider, error |-> m.error])]
            ELSE [called EXCEPT !.all_models = @ \o m.data]

\* Mutant: the first provider that fails ends the walk.
RECURSIVE for_provider_in_break(_, _, _, _)
for_provider_in_break(providers, cfg, outcome, w) ==
    IF providers = << >> THEN w
    ELSE LET after == fetch_models(Head(providers), cfg, outcome, w) IN
         IF after.warnings # w.warnings THEN after
         ELSE for_provider_in_break(Tail(providers), cfg, outcome, after)

\* `for provider in providers:` with its try / except Exception: continue.
RECURSIVE for_provider_in(_, _, _, _)
for_provider_in(providers, cfg, outcome, w) ==
    IF providers = << >> THEN w
    ELSE for_provider_in(Tail(providers), cfg, outcome,
                         fetch_models(Head(providers), cfg, outcome, w))

\* GET /v1/models.  The only suspension that waits for a provider is the
\* OpenAI client's models.list(); its outcome is the action's input.
ListModelsRequest(outcome) ==
    LET w == for_provider_in(configured_providers(settings), settings, outcome,
                             Walk(instances, resolved, << >>, << >>, << >>, << >>))
    IN
    /\ CanStart
    /\ nreq' = nreq + 1
    /\ req' = [NoRequest EXCEPT !.endpoint = "models"]
    /\ instances' = w.instances
    /\ resolved' = w.resolved
    /\ all_models' = w.all_models
    /\ warnings' = w.warnings
    /\ calls' = w.calls
    /\ upstream' = w.upstream
    /\ resp' = JSONResponse("list")
    /\ pc' = "done"
    /\ UNCHANGED <<settings, ret, adapter, state, raisedErr, gen, produced, wire,
                   fnarg, fnret>>

NextModels ==
    \/ \E outcome \in ModelsListOutcomes : ListModelsRequest(outcome)
    \/ RequestDone

SpecModels == Init /\ [][NextModels]_vars

\* The providers the handler considers configured, in the order of the
\* specification: openai, claude, gemini, grok, azure, bedrock.
ProviderOrder == <<S_openai, S_claude, S_gemini, S_grok, S_azure, S_bedrock>>

IsConfigured(provider) ==
    \E row \in ProviderTable : row.name = provider /\ Present(row.creds)

ConfiguredInOrder == SelectSeq(ProviderOrder, IsConfigured)

\* The catalog a provider's list_models returns when it does not raise.
CatalogOf(provider) ==
    CASE provider = S_openai -> IF upstream = << >> THEN << >> ELSE upstream[1].data
      [] provider = S_claude -> ClaudeCatalog
      [] provider = S_gemini -> GeminiCatalog
      [] provider = S_grok -> GrokCatalog
      [] provider = S_azure -> AzureCatalog
      [] provider = S_bedrock -> BedrockCatalog

Skipped(provider) == \E i \in 1..Len(warnings) : warnings[i].provider = provider

C16_AllCatalogsListed ==
    (/\ pc = "done" /\ req.endpoint = "models"
     /\ \A i \in 1..Len(upstream) : upstream[i].kind = "ok") =>
        all_models =
            Concat([i \in 1..Len(ConfiguredInOrder) |-> CatalogOf(ConfiguredInOrder[i])])

\* C18: when a chat-completion request has been dispatched to an adapter, the
\* request context carries provider, model and is_streaming as the router set
\* them, and after a successful non-streaming completion it also carries the
\* usage of the adapter's response.
C18_RequestContext ==
    (pc = "done" /\ req.endpoint = "chat" /\ ret.ok) =>
        /\ state.provider = ProviderOf(adapter.cls)
        /\ state.model = req.model
        /\ state.is_streaming = req.stream
        /\ (~Truthy(req.stream) /\ resp.status = 200) => state.usage # Unset

(***************************************************************************)
(* The assembled application: the middleware main.py installs, around the  *)
(* /v1 routers and the public endpoints.                                   *)
(***************************************************************************)
\* The app.add_middleware calls of main.py, in call order.
add_middleware == <<"CORSMiddleware", "MetricsMiddleware", "LoggingMiddleware">>

RECURSIVE Reverse(_)
Reverse(s) == IF s = << >> THEN << >> ELSE Append(Reverse(Tail(s)), Head(s))

\* Each add_middleware call wraps the application built so far: the
\* middleware added last sees a request first.
middleware_stack == Reverse(add_middleware)

PUBLIC_ENDPOINTS == {"/", "/health", "/metrics", "/docs", "/redoc", "/openapi.json"}

\* Paths of the routers included under the /v1 prefix.
V1Routes == {"/v1/chat/completions", "/v1/embeddings", "/v1/models"}

\* settings.ENVIRONMENT (its default).
ENVIRONMENT == "development"

\* request.headers.get("Authorization") when the header is absent.
NoHeader == <<"<None>">>

S_Bearer == <<"B","e","a","r","e","r">>

\* Authorization header values of a request.
AuthorizationHeaders ==
    { NoHeader, << >>, S_Bearer, S_Bearer \o <<" ">>, S_Bearer \o <<" ", " ">>,
      S_Bearer \o <<" ", "t", "o", "k">>, lower(S_Bearer) \o <<" ", "t", "o", "k">>,
      <<"B", "a", "s", "i", "c", " ", "t", "o", "k">> }

\* Position of the first space of s, 0 when there is none.
FirstSpace(s) ==
    IF \E i \in 1..Len(s) : s[i] = " "
    THEN CHOOSE i \in 1..Len(s) : s[i] = " " /\ \A j \in 1..(i - 1) : s[j] # " "
    ELSE 0

\* api_key.strip() is empty
Blank(s) == \A i \in 1..Len(s) : s[i] = " "

\* AuthenticationMiddleware._validate_api_key
_validate_api_key(api_key) ==
    IF api_key = << >> \/ Blank(api_key) THEN FALSE
    ELSE IF ENVIRONMENT = "development" THEN TRUE
    ELSE Len(api_key) >= 32

\* AuthenticationMiddleware._error_response
_error_response(code, status_code) ==
    [status |-> status_code, media |-> "application/json", detail |-> NoDetail,
     body |-> code]

Rejected(response) == [next |-> FALSE, api_key |-> UnsetSeq, resp |-> response]

PassedOn(api_key) == [next |-> TRUE, api_key |-> api_key, resp |-> NoResponse]

\* AuthenticationMiddleware.dispatch: whether it calls call_next, and the
\* api_key it stores on request.state before doing so.
AuthenticationMiddleware_dispatch(path, auth_header) ==
    LET sp == FirstSpace(auth_header)
        scheme == SubSeq(auth_header, 1, sp - 1)
        api_key == SubSeq(auth_header, sp + 1, Len(auth_header))
    IN
    IF path \in PUBLIC_ENDPOINTS THEN PassedOn(UnsetSeq)
    ELSE IF auth_header = NoHeader \/ auth_header = << >>
    THEN Rejected(_error_response("missing_authorization", 401))
    ELSE IF sp = 0
    THEN Rejected(_error_response("malformed_authorization", 401))
    ELSE IF lower(scheme) # lower(S_Bearer)
    THEN Rejected(_error_response("invalid_auth_scheme", 401))
    ELSE IF ~_validate_api_key(api_key)
    THEN Rejected(_error_response("invalid_api_key", 401))
    ELSE PassedOn(api_key)

\* The request travels down the middleware: the result says whether the
\* router is reached, and with which request.state.
RECURSIVE call_next(_, _, _, _)
call_next(stack, path, auth_header, st) ==
    IF stack = << >> THEN [routed |-> TRUE, state |-> st, resp |-> NoResponse]
    ELSE IF Head(stack) = "AuthenticationMiddleware"
    THEN LET a == AuthenticationMiddleware_dispatch(path, auth_header) IN
         IF a.next
         THEN call_next(Tail(stack), path, auth_header,
                        IF a.api_key = UnsetSeq THEN st ELSE [st EXCEPT !.api_key = a.api_key])
         ELSE [routed |-> FALSE, state |-> st, resp |-> a.resp]
    ELSE call_next(Tail(stack), path, auth_header, st)

NoHttpRequest == [path |-> "", authorization |-> NoHeader]

InitApp ==
    /\ settings = [c \in CredNames |-> KeyVal]
    /\ Quiescent
    /\ fnarg = NoHttpRequest
    /\ fnret = NoValue

\* A request arrives and passes the middleware; a /v1 path that reaches
\* the router enters its handler, a public path is answered directly.
HttpRequest(path, auth_header) ==
    LET d == call_next(middleware_stack, path, auth_header, EmptyState) IN
    /\ CanStart
    /\ nreq' = nreq + 1
    /\ fnarg' = [path |-> path, authorization |-> auth_header]
    /\ state' = d.state
    /\ IF ~d.routed THEN resp' = d.resp /\ pc' = "done"
       ELSE IF path \in V1Routes THEN resp' = NoResponse /\ pc' = "handler"
       ELSE resp' = JSONResponse(path) /\ pc' = "done"
    /\ UNCHANGED <<settings, instances, resolved, req, ret, adapter, calls, upstream,
                   raisedErr, gen, produced, wire, all_models, warnings, fnret>>

\* The /v1 handler runs and answers.
HandlerReturns ==
    /\ pc = "handler"
    /\ pc' = "done"
    /\ resp' = JSONResponse(fnarg.path)
    /\ UNCHANGED <<settings, instances, resolved, nreq, req, ret, adapter, state,
                   calls, upstream, raisedErr, gen, produced, wire, all_models,
                   warnings, fnarg, fnret>>

\* The response has been sent.
HttpRequestDone ==
    /\ pc = "done"
    /\ pc' = "idle"
    /\ fnarg' = NoHttpRequest /\ state' = EmptyState /\ resp' = NoResponse
    /\ UNCHANGED <<settings, instances, resolved, nreq, req, ret, adapter, calls,
                   upstream, raisedErr, gen, produced, wire, all_models, warnings,
                   fnret>>

NextApp ==
    \/ \E path \in V1Routes \cup {"/", "/health", "/metrics"},
          auth_header \in AuthorizationHeaders : HttpRequest(path, auth_header)
    \/ HandlerReturns
    \/ HttpRequestDone

SpecApp == InitApp /\ [][NextApp]_vars

\* C19: whenever a /v1 handler runs in the assembled application, the
\* authentication layer has run before it and has stored the caller's API key
\* on the request context.
C19_AuthenticatedBeforeHandler ==
    (pc = "handler" /\ fnarg.path \in V1Routes) =>
        /\ state.api_key # UnsetSeq
        /\ AuthenticationMiddleware_dispatch(fnarg.path, fnarg.authorization).next

\* A credential value an adapter can work with.
IsCredential(v) == v # NoneVal /\ v # EmptyStr /\ v # Unset

\* The adapter holds every credential its provider requires, as configured.
HoldsCredentials(a) ==
    CASE a.cls = "OpenAIAdapter" ->
            IsCredential(a.api_key) /\ a.api_key = settings["OPENAI_API_KEY"]
      [] a.cls = "ClaudeAdapter" ->
            IsCredential(a.api_key) /\ a.api_key = settings["ANTHROPIC_API_KEY"]
      [] a.cls = "GeminiAdapter" ->
            IsCredential(a.api_key) /\ a.api_key = settings["GEMINI_API_KEY"]
      [] a.cls = "GrokAdapter" ->
            IsCredential(a.api_key) /\ a.api_key = settings["GROK_API_KEY"]
      [] a.cls = "AzureAdapter" ->
            /\ IsCredential(a.api_key) /\ a.api_key = settings["AZURE_OPENAI_API_KEY"]
            /\ IsCredential(a.endpoint) /\ a.endpoint = settings["AZURE_OPENAI_ENDPOINT"]
      [] a.cls = "BedrockAdapter" ->
            /\ IsCredential(a.aws_access_key_id)
            /\ a.aws_access_key_id = settings["AWS_ACCESS_KEY_ID"]
            /\ IsCredential(a.aws_secret_access_key)
            /\ a.aws_secret_access_key = settings["AWS_SECRET_ACCESS_KEY"]
      [] OTHER -> FALSE

\* The providers the operation in progress asked the factory for.
SelectedProviders ==
    IF req.endpoint = "get_adapter"
    THEN LET name == lower(req.provider)
         IN { row \in ProviderTable : row.name = name }
    ELSE IF ByModel
    THEN LET model == lower(req.model)
             classes == { route.cls : route \in
                            { r \in RoutingTable : startswith(model, r.prefix) } }
         IN { row \in ProviderTable : row.cls \in classes }
    ELSE {}

\* C20: every adapter instance ever constructed, and so every adapter the
\* factory returns, holds all the credentials its provider requires (the API
\* key; key and endpoint for Azure; access key id and secret for Bedrock),
\* none absent or empty.  A resolution for a provider with a credential
\* missing fails with that provider's not-configured error, on every attempt,
\* before anything is constructed or called.
C20_NoAdapterWithoutCredentials ==
    /\ \A i \in 1..Len(instances) : HoldsCredentials(instances[i])
    /\ \A i \in 1..Len(resolved) : HoldsCredentials(resolved[i])
    /\ ret.ok => HoldsCredentials(ret.adapter)
    /\ \A row \in SelectedProviders :
            ~Present(row.creds) =>
                /\ ~ret.ok /\ ret.adapter = NoAdapter /\ adapter = NoAdapter
                /\ ret.error = ValueError(row.missing, EmptySeq)
                /\ Len(instances) = Len(resolved)
                /\ calls = << >> /\ upstream = << >>

\* After one adapter has been constructed, a request for a provider whose
\* key is set but empty has failed.
C20_Witness ==
    /\ pc = "done" /\ ByModel
    /\ Len(instances) = 1 /\ nreq = 2
    /\ settings["ANTHROPIC_API_KEY"] = EmptyStr
    /\ startswith(req.model, P_claude)
    /\ ~ret.ok /\ ret.error.text = "ANTHROPIC_API_KEY not configured"

(***************************************************************************)
(* The gateway as a whole: the chat and embeddings handlers, direct        *)
(* factory calls and the model listing, one request at a time.             *)
(***************************************************************************)
NextGateway ==
    \/ Next
    \/ \E outcome \in ModelsListOutcomes : ListModelsRequest(outcome)

SpecGateway == Init /\ [][NextGateway]_vars

\* The provider-scoped messages of the OpenAI and Claude adapters.
ProviderScoped(cls) ==
    CASE cls = "OpenAIAdapter" ->
            {"OpenAI API error: ", "OpenAI streaming error: ",
             "OpenAI embeddings error: ", "OpenAI list models error: "}
      [] cls = "ClaudeAdapter" -> {"Claude API error: ", "Claude streaming error: "}
      [] OTHER -> {}

IsWrapped(e, cls, cause) ==
    /\ e.type = "Exception"
    /\ e.text \in ProviderScoped(cls)
    /\ e.cause = cause

\* C21: whenever the provider client fails under an OpenAI or Claude adapter
\* operation, the operation raises an error that wraps the failure under the
\* adapter's provider-scoped message, and nothing is returned: a failed chat
\* or embeddings call yields no response body, a failed listing contributes
\* no descriptor, and a stream that fails after k chunks raises after exactly
\* k yields instead of ending.
C21_ErrorsWrappedNeverSwallowed ==
    [][ /\ \A f \in UpstreamFailures :
            (UpstreamChatReply(f) \/ UpstreamEmbeddingReply(f)) =>
                /\ IsWrapped(raisedErr', adapter.cls, f)
                /\ resp'.status # 200 /\ resp'.body = ""
        /\ \A o \in StreamOutcomes :
            (o.kind = "raise" /\ adapter.cls \in {"OpenAIAdapter", "ClaudeAdapter"}
                /\ StreamPull(o)) =>
                /\ IsWrapped(raisedErr', adapter.cls, o.failure)
                /\ gen'.error = raisedErr' /\ gen'.ended = "raised"
                /\ gen'.pc # "emit_done"
                /\ produced' = produced
        /\ \A o \in ModelsListOutcomes :
            (o.kind = "raise" /\ ~Falsy(settings["OPENAI_API_KEY"])
                /\ ListModelsRequest(o)) =>
                /\ \E i \in 1..Len(warnings') :
                      /\ warnings'[i].provider = S_openai
                      /\ IsWrapped(warnings'[i].error, "OpenAIAdapter", o.failure)
                /\ \A i \in 1..Len(all_models') : all_models'[i].owned_by = "anthropic"
      ]_vars

\* A Claude stream has failed after one chunk, and the failure was raised.
C21_Witness ==
    /\ req.endpoint = "chat" /\ adapter.cls = "ClaudeAdapter"
    /\ Len(produced) = 1
    /\ raisedErr.text = "Claude streaming error: "
    /\ raisedErr.cause = "invalid request"
    /\ gen.pc = "emit_error"

\* The adapter operation a chat request dispatches to.
DispatchedOp == IF req.stream = "True" THEN "chat_completion_stream" ELSE "chat_completion"

\* C22: a chat-completion request invokes no adapter operation before or
\* without a successful resolution; after one it invokes exactly one
\* operation of the resolved adapter, exactly once: chat_completion_stream
\* when stream is true, chat_completion otherwise, never both; and a request
\* that has completed after a successful resolution has made that invocation.
C22_DispatchOnce ==
    req.endpoint = "chat" =>
        /\ Len(calls) <= 1
        /\ calls # << >> =>
              /\ ret.ok /\ adapter = ret.adapter
              /\ calls[1] = [id |-> adapter.id, op |-> DispatchedOp]
        /\ ~ret.ok => calls = << >> /\ pc = "done" /\ resp.status >= 400
        /\ (ret.ok /\ pc = "done") => Len(calls) = 1
        /\ (ret.ok /\ pc = "await_chat") => Len(calls) = 1 /\ req.stream # "True"
        /\ (ret.ok /\ pc = "streaming") => req.stream = "True"

\* A request without a stream field has been served by chat_completion.
C22_Witness ==
    /\ req.endpoint = "chat" /\ req.stream = "None"
    /\ pc = "done" /\ resp.status = 200
    /\ calls = <<[id |-> adapter.id, op |-> "chat_completion"]>>

IsChunkEvent(ev) == ev.data = "json" /\ ev.error = NoErrorBody

\* Chunks received from the adapter and not yet handed to the transport.
InFlight == Len(produced) - Len(SelectSeq(wire, IsChunkEvent))

\* C23: stream_generator asks the adapter for a chunk only when every chunk
\* it has received has been handed to the transport; so at most one received
\* chunk is ever waiting to be forwarded, and it is the one the generator is
\* about to yield.
C23_PullBased ==
    /\ InFlight \in {0, 1}
    /\ gen.pc = "pull" => InFlight = 0
    /\ InFlight = 1 => gen.pc = "emit_chunk" /\ gen.chunk = produced[Len(produced)]
    /\ SelectSeq(wire, IsChunkEvent) = ChunkEvents(SubSeq(produced, 1, Len(produced) - InFlight))

\* The second chunk has been received while the first is already on the wire.
C23_Witness ==
    /\ pc = "streaming" /\ gen.pc = "emit_chunk"
    /\ Len(produced) = 2
    /\ wire = <<ChunkEvent(produced[1])>>

\* C24: a chat-completion request whose model is the empty string is answered
\* with a 400-class status as soon as it is received; no adapter is resolved
\* or constructed for it and no adapter operation or provider call is made.
C24_EmptyModelRejected ==
    (req.endpoint = "chat" /\ req.model = << >>) =>
        /\ pc = "done"
        /\ resp.status \in 400..499
        /\ ~ret.ok /\ ret.adapter = NoAdapter /\ adapter = NoAdapter
        /\ Len(instances) = Len(resolved)
        /\ calls = << >> /\ upstream = << >> /\ wire = << >>

\* With every credential configured, a streaming request with an empty model
\* has been rejected.
C24_Witness ==
    /\ req.endpoint = "chat" /\ req.model = << >> /\ req.stream = "True"
    /\ \A c \in CredNames : settings[c] = KeyVal
    /\ resp.status = 400
    /\ resp.detail.text = "Unknown model: "

IsErrorEvent(ev) == ev.error # NoErrorBody

IsTerminalEvent(ev) == ev = DoneEvent \/ IsErrorEvent(ev)

\* C25: in a streaming response the [DONE] sentinel and the error event are
\* final and exclude each other: either can only be the last event on the
\* wire, after which the generator has returned; the sentinel is there only
\* if the adapter's sequence ended without raising, the error event only if
\* it raised and then it carries that exception; and a generator that has
\* returned has emitted exactly one of the two.
C25_TerminalEventExclusive ==
    /\ \A i \in 1..Len(wire) :
            IsTerminalEvent(wire[i]) => i = Len(wire) /\ gen.pc = "end" /\ pc = "done"
    /\ \A i \in 1..Len(wire) :
            /\ wire[i] = DoneEvent => gen.ended = "complete" /\ raisedErr = NoError
            /\ IsErrorEvent(wire[i]) =>
                    /\ gen.ended = "raised" /\ raisedErr # NoError
                    /\ wire[i] = ErrorEvent(raisedErr)
    /\ gen.pc = "end" =>
            /\ wire # << >>
            /\ gen.ended = "complete" <=> wire[Len(wire)] = DoneEvent
            /\ gen.ended = "raised" <=> IsErrorEvent(wire[Len(wire)])

\* A stream that failed before its first chunk ended with the error event alone.
C25_Witness ==
    /\ gen.pc = "end" /\ adapter.cls = "OpenAIAdapter"
    /\ produced = << >>
    /\ Len(wire) = 1 /\ IsErrorEvent(wire[1])

\* C26: a chat request with a truthy stream flag whose adapter was resolved
\* is answered with the 200 event stream whatever the adapter does: a
\* failure of the adapter, also one raised before the first chunk, is caught
\* by the generator and ends the wire as an error event carrying its text.
\* Only a failed resolution gives such a request an HTTP error status, and
\* then there is no generator and no event.
C26_StreamFailuresInBand ==
    (req.endpoint = "chat" /\ Truthy(req.stream)) =>
        /\ ret.ok =>
                /\ resp = StreamingResponse
                /\ pc \in {"streaming", "done"}
                /\ raisedErr # NoError =>
                        /\ gen.pc \in {"emit_error", "end"}
                        /\ gen.pc = "end" =>
                                /\ IsErrorEvent(wire[Len(wire)])
                                /\ wire[Len(wire)].error.message = str(raisedErr)
        /\ ~ret.ok =>
                /\ resp.status \in 400..599
                /\ pc = "done"
                /\ gen = NoGen /\ wire = << >> /\ calls = << >>
        /\ resp.status # 200 => ~ret.ok

\* The unimplemented Gemini streaming stub, answered in band.
C26_Witness ==
    /\ req.endpoint = "chat" /\ Truthy(req.stream)
    /\ adapter.cls = "GeminiAdapter"
    /\ pc = "done"
    /\ resp.status = 200 /\ resp.media = "text/event-stream"
    /\ raisedErr.type = "NotImplementedError"
    /\ wire = <<ErrorEvent(raisedErr)>>

Invoked == calls # << >>

ModelRoutedClasses == {"OpenAIAdapter", "ClaudeAdapter", "GeminiAdapter", "GrokAdapter"}

NameOnlyClasses == {"AzureAdapter", "BedrockAdapter"}

\* The adapters a step constructs.
Constructed == {instances'[i] : i \in (Len(instances) + 1)..Len(instances')}

\* C28: resolution by model only ever returns an OpenAI, Claude, Gemini or
\* Grok adapter, whatever credentials are configured; a name by which
\* get_adapter returns an Azure or Bedrock adapter is, taken as a model
\* identifier, an unknown model.  A step that constructs
\* an Azure or Bedrock adapter is a get_adapter call by provider name or the
\* model listing, never a chat or embeddings request.
C28_ModelRoutingNeverAzureBedrock ==
    [][ /\ (req'.endpoint \in {"chat", "embeddings"} /\ ret'.ok) =>
                ret'.adapter.cls \in ModelRoutedClasses
        /\ (\E a \in Constructed : a.cls \in NameOnlyClasses) =>
                req'.endpoint \in {"get_adapter", "models"}
        /\ (req'.endpoint = "get_adapter" /\ ret'.ok
                /\ ret'.adapter.cls \in NameOnlyClasses) =>
                ~get_adapter_for_model(req'.provider, settings', instances').ok
      ]_vars

\* With Azure and Bedrock configured and an Azure adapter already built by
\* name, a request the factory routes by model gets the OpenAI adapter.
C28_Witness ==
    /\ IsConfigured(S_azure) /\ IsConfigured(S_bedrock)
    /\ \E i \in 1..Len(instances) : instances[i].cls = "AzureAdapter"
    /\ req.endpoint = "chat" /\ ret.ok
    /\ ret.adapter.cls = "OpenAIAdapter"

(***************************************************************************)
(* OpenAIAdapter.chat_completion_stream, statement by statement, on a heap *)
(* of dict objects: fnarg is the caller's dict as it was at the call,      *)
(* fnret the adapter's frame (the heap, its references into it, and the    *)
(* keyword arguments of the client call).                                  *)
(***************************************************************************)
\* Messages in the request dict handed to the adapter.
MaxRequestMessages == 1

Absent == "<absent>"

\* request.model_dump(exclude_none=True): the stream key is True, False or,
\* for a dict built by another caller, missing.
RequestDicts ==
    [model : {P_gpt \o <<"4">>, P_o1 \o <<"m">>},
     messages : SeqsUpTo(Messages, MaxRequestMessages),
     stream : {"True", "False", Absent}]

NoKwargs == [model |-> << >>, messages |-> << >>, stream |-> Absent]

\* Mutant: the local name is bound to the caller's dict itself.
dict_copy_alias(heap, ref) == [heap |-> heap, ref |-> ref]

\* dict.copy(): a new dict object with the same items.
dict_copy(heap, ref) == [heap |-> Append(heap, heap[ref]), ref |-> Len(heap) + 1]

\* d[key] = value
dict_setitem(heap, ref, key, value) == [heap EXCEPT ![ref][key] = value]

CallFrame(request) ==
    [heap |-> <<request>>, request |-> 1, request_copy |-> 0, kwargs |-> NoKwargs]

InitStreamRequest ==
    /\ settings = [c \in CredNames |-> KeyVal]
    /\ Quiescent
    /\ fnarg \in RequestDicts
    /\ fnret = CallFrame(fnarg)

StreamRequestUnchanged ==
    UNCHANGED <<settings, instances, resolved, nreq, req, ret, adapter, state, resp,
                calls, upstream, raisedErr, gen, produced, wire, all_models,
                warnings, fnarg>>

\* request_copy = request.copy()
CopyRequest ==
    /\ pc = "idle"
    /\ pc' = "copied"
    /\ LET c == dict_copy(fnret.heap, fnret.request) IN
            fnret' = [fnret EXCEPT !.heap = c.heap, !.request_copy = c.ref]
    /\ StreamRequestUnchanged

\* request_copy["stream"] = True
SetStream ==
    /\ pc = "copied"
    /\ pc' = "set"
    /\ fnret' = [fnret EXCEPT
                    !.heap = dict_setitem(fnret.heap, fnret.request_copy, "stream", "True")]
    /\ StreamRequestUnchanged

\* await self.client.chat.completions.create(**request_copy)
CreateStream ==
    /\ pc = "set"
    /\ pc' = "done"
    /\ fnret' = [fnret EXCEPT !.kwargs = fnret.heap[fnret.request_copy]]
    /\ StreamRequestUnchanged

NextStreamRequest == CopyRequest \/ SetStream \/ CreateStream

SpecStreamRequest == InitStreamRequest /\ [][NextStreamRequest]_vars

\* C29: at every point of OpenAIAdapter.chat_completion_stream the caller's
\* request dict holds the items it held at the call, and the client is
\* called with stream set to True and every other item as in the request,
\* whether the request's stream was True, False or missing.
C29_RequestCopied ==
    /\ fnret.heap[fnret.request] = fnarg
    /\ pc = "done" =>
            /\ fnret.kwargs.stream = "True"
            /\ fnret.kwargs = [fnarg EXCEPT !.stream = "True"]
            /\ fnret.request_copy # fnret.request
    /\ pc # "done" => fnret.kwargs = NoKwargs

\* The client was called for a request whose stream key was False.
C29_Witness ==
    /\ pc = "done"
    /\ fnarg.stream = "False" /\ fnarg.messages # << >>
    /\ fnret.kwargs.stream = "True"
    /\ fnret.heap[fnret.request].stream = "False"

OnProvidersList(provider) ==
    LET providers == configured_providers(settings) IN
    \E i \in 1..Len(providers) : providers[i] = provider

\* C30: for every settings value the handler's providers list and the
\* factory's credential checks agree: a provider is on the list exactly when
\* get_adapter for it succeeds, and off the list exactly when get_adapter
\* fails with that provider's not-configured error.  So no provider the
\* listing walks is skipped for a ValueError of the factory: every warning
\* comes from list_models.
C30_ConfiguredAgreesWithFactory ==
    /\ \A row \in ProviderTable :
            LET r == get_adapter(row.name, settings, instances) IN
            /\ OnProvidersList(row.name) <=> r.ok
            /\ ~OnProvidersList(row.name) =>
                    r.error = ValueError(row.missing, EmptySeq)
    /\ \A i \in 1..Len(warnings) :
            /\ ~isinstance(warnings[i].error, "ValueError")
            /\ OnProvidersList(warnings[i].provider)
    /\ req.endpoint = "models" =>
            Len(resolved) - Len(instances) = 0

\* A listing under settings that lack only Azure's endpoint: Azure was left
\* off the list, and the listing made no warning about it.
C30_Witness ==
    /\ req.endpoint = "models" /\ pc = "done"
    /\ ~Falsy(settings["AZURE_OPENAI_API_KEY"])
    /\ Falsy(settings["AZURE_OPENAI_ENDPOINT"])
    /\ ~Falsy(settings["OPENAI_API_KEY"])
    /\ ~OnProvidersList(S_azure)
    /\ \A i \in 1..Len(resolved) : resolved[i].cls # "AzureAdapter"
    /\ Len(resolved) > 0
    /\ \A i \in 1..Len(warnings) : warnings[i].provider # S_azure

====
